---- MODULE Spec2Model ----
(***************************************************************************)
(* Model of the virtual-memory backed Vector<T> of ParzivalSec/CVector.    *)
(*                                                                         *)
(* Two implementations live in the repository:                             *)
(*   src/CustomVector/CustomVector_lean.cpp  (variable a, specification    *)
(*                                            Spec)                        *)
(*   src/CustomVector/CustomVector.cpp       (variable u, specification    *)
(*                                            SpecFull)                    *)
(*                                                                         *)
(* Addresses, byte counts and element counts are size_t / uintptr_t values *)
(* and are computed modulo 2^SizeBits.  The address space is scaled down:  *)
(* MAX_VECTOR_CAPACITY is MaxPages pages of PageSize bytes.  The asserts   *)
(* of the code are modelled as compiled in (Debug build); a failed assert  *)
(* aborts the program, which is recorded in the variable fault.            *)
(***************************************************************************)
EXTENDS Integers, Sequences, FiniteSets, TLC

(***************************************************************************)
(* Bounds of the model.                                                    *)
(***************************************************************************)
PageSize == 4
MaxPages == 4
MaxVal == 1
SizeBits == 12

SizeMod == 2 ^ SizeBits

\* T::data of a constructed element; Custom() sets data to 0
Values == 0 .. MaxVal
DefaultValue == 0
\* content of a slot that holds no constructed element
Raw == -1

\* sizeof(T) of the instantiations that are explored: a size that divides
\* the page size, one that does not, one page, two pages and three pages
ElemSizes == {2, 3, PageSize, 2 * PageSize, 3 * PageSize}

None == "none"
NoCall == [op |-> "none", on |-> "none", args |-> <<>>, log |-> <<>>]
AccessViolation == "access violation"

VARIABLES
    sizeofT,    \* sizeof(T) of the instantiation, fixed
    a,          \* the Vector<T> of CustomVector_lean.cpp and its memory
    b,          \* a second Vector<T> of CustomVector_lean.cpp (NoVector
                \* until it is constructed)
    u,          \* the Vector<T> of CustomVector.cpp and its memory
    last,       \* the call under observation: its name, the object it
                \* was called on, its arguments and
                \* the log of what it did (the element operations ctor,
                \* cctor, assign, dtor, and memmove and grow); NoCall while
                \* no call is observed
    fault,      \* the failed assert or the access violation that ended the run
    ub          \* TRUE once a write outside the reserved range went through

vars == <<sizeofT, a, b, u, last, fault, ub>>

(***************************************************************************)
(* size_t arithmetic                                                       *)
(***************************************************************************)
Add(x, y) == (x + y) % SizeMod
Sub(x, y) == (x - y + SizeMod) % SizeMod
Mul(x, y) == (x * y) % SizeMod

(***************************************************************************)
(* namespace MathUtil                                                      *)
(***************************************************************************)
\* roundUpToMultiple that rounds towards zero
roundUpToMultiple_down(numToRound, multiple) ==
    IF multiple = 0 THEN numToRound
    ELSE Sub(numToRound, numToRound % multiple)

roundUpToMultiple(numToRound, multiple) ==
    IF multiple = 0 THEN numToRound
    ELSE LET remainder == numToRound % multiple
         IN  IF remainder = 0 THEN numToRound
             ELSE Sub(Add(numToRound, multiple), remainder)

roundDownToMultiple(numToRound, multiple) ==
    IF multiple = 0 THEN numToRound
    ELSE LET remainder == numToRound % multiple
         IN  IF remainder = 0 THEN numToRound
             ELSE Sub(numToRound, remainder)

(***************************************************************************)
(* namespace VirtualMemory                                                 *)
(***************************************************************************)
MAX_VECTOR_CAPACITY == MaxPages * PageSize

GetPageSize == PageSize

\* the base address the platform hands out for the reserved range
ReserveAddressSpace == 4 * PageSize

\* VirtualAlloc(from, size, MEM_COMMIT, ..) returns from, or NULL on refusal
GetPhysicalMemory(from, size, commitOk) == IF commitOk THEN from ELSE 0

(***************************************************************************)
(* Vector<T> of CustomVector_lean.cpp                                      *)
(***************************************************************************)
GetMaxElements == MAX_VECTOR_CAPACITY \div sizeofT

\* Vector<T>::Vector(): nothing committed, no element constructed.
\* mem[i] is the content of slot i of m_internal_array; committed_end is
\* the end of the pages the platform has really committed.
Vector ==
    LET begin == ReserveAddressSpace
    IN  [ m_size               |-> 0,
          m_capacity           |-> 0,
          m_pageSize           |-> GetPageSize,
          m_virtual_mem_begin  |-> begin,
          m_virtual_mem_end    |-> Add(begin, MAX_VECTOR_CAPACITY),
          m_physical_mem_begin |-> begin,
          m_physical_mem_end   |-> begin,
          m_internal_array     |-> begin,
          committed_end        |-> begin,
          mem                  |-> [i \in 0 .. GetMaxElements |-> Raw] ]

\* the bases of the two address ranges the platform hands out: the ranges
\* of two live reservations do not overlap
ReservedBases ==
    <<ReserveAddressSpace, ReserveAddressSpace + 2 * MAX_VECTOR_CAPACITY>>

\* Vector<T>::Vector() with its range reserved at begin
VectorAt(begin) ==
    [Vector EXCEPT !.m_virtual_mem_begin = begin,
                   !.m_virtual_mem_end = Add(begin, MAX_VECTOR_CAPACITY),
                   !.m_physical_mem_begin = begin,
                   !.m_physical_mem_end = begin,
                   !.m_internal_array = begin,
                   !.committed_end = begin]

\* an object that is not constructed
NoVector == [m_internal_array |-> 0]

size(v) == v.m_size
capacity(v) == v.m_capacity

\* the run of one member function: the object, the element operations made
\* so far, and how the run ended if it did not return
Run(v) == [v |-> v, log |-> <<>>, fault |-> None, ub |-> FALSE]
Stopped(m) == m.fault # None \/ m.ub

\* what the platform does on an access to the bytes of slot i:
\* committed pages are readable and writable, reserved pages that are not
\* committed are PAGE_NOACCESS, addresses past the reserved range belong to
\* somebody else
VirtualEnd(v) ==
    IF "m_virtual_mem_end" \in DOMAIN v THEN v.m_virtual_mem_end
    ELSE v.m_virtual_memory_end

Access(v, i) ==
    LET lo == v.m_internal_array + i * sizeofT
        hi == lo + sizeofT
        from == IF lo > v.committed_end THEN lo ELSE v.committed_end
        to == IF hi < VirtualEnd(v) THEN hi ELSE VirtualEnd(v)
    IN  IF hi <= v.committed_end THEN "ok"
        ELSE IF from < to THEN "noaccess"
        ELSE "foreign"

\* a write of val to slot i (placement new or assignment); foreign tells
\* whether the memory behind the reserved range happens to be writable
Store(m, i, val, event, foreign) ==
    LET acc == Access(m.v, i)
    IN  IF Stopped(m) THEN m
        ELSE IF acc = "noaccess" \/ (acc = "foreign" /\ ~foreign)
             THEN [m EXCEPT !.fault = AccessViolation]
        ELSE IF acc = "foreign"
             THEN [m EXCEPT !.v.mem[i] = val, !.log = Append(@, event),
                            !.ub = TRUE]
        ELSE [m EXCEPT !.v.mem[i] = val, !.log = Append(@, event)]

\* new (slot i) T(object)
CopyConstruct(m, i, object, foreign) ==
    Store(m, i, object, <<"cctor", i>>, foreign)

\* new (slot i) T
DefaultConstruct(m, i, foreign) ==
    Store(m, i, DefaultValue, <<"ctor", i>>, foreign)

\* slot i = slot j  (T::operator=)
Assign(m, i, j, foreign) ==
    IF Stopped(m) THEN m
    ELSE IF Access(m.v, j) # "ok"
         THEN IF Access(m.v, j) = "foreign" /\ foreign
              THEN [m EXCEPT !.ub = TRUE]
              ELSE [m EXCEPT !.fault = AccessViolation]
    ELSE Store(m, i, m.v.mem[j], <<"assign", i, j>>, foreign)

\* slot i .~T()
Destroy(m, i, foreign) ==
    Store(m, i, Raw, <<"dtor", i>>, foreign)

GetGrowSizeInElements(v) ==
    IF v.m_capacity # 0 THEN Mul(v.m_capacity, 2) ELSE 8

\* GrowByBytes without the assert that the reserved range is not used up
GrowByBytes_noassert(m, growSizeInBytes, commitOk) ==
    LET v == m.v
        rounded == roundUpToMultiple(growSizeInBytes, v.m_pageSize)
        roundedGrowSize ==
            IF Add(v.m_physical_mem_end, rounded) > v.m_virtual_mem_end
            THEN roundDownToMultiple(
                     Sub(v.m_virtual_mem_end, v.m_physical_mem_end),
                     v.m_pageSize)
            ELSE rounded
        allocation ==
            GetPhysicalMemory(v.m_physical_mem_end, roundedGrowSize, commitOk)
        newEnd == Add(allocation, roundedGrowSize)
    IN  IF Stopped(m) THEN m
        ELSE IF growSizeInBytes = 0 THEN m
        ELSE [m EXCEPT
                !.log = Append(@, <<"grow", growSizeInBytes, roundedGrowSize>>),
                !.v.m_physical_mem_end = newEnd,
                !.v.committed_end =
                    IF commitOk THEN Add(@, roundedGrowSize) ELSE @,
                !.v.m_capacity =
                    Sub(newEnd, v.m_physical_mem_begin) \div sizeofT]

\* GrowByBytes without the clamp to the end of the reserved range
GrowByBytes_noclamp(m, growSizeInBytes, commitOk) ==
    LET v == m.v
        roundedGrowSize == roundUpToMultiple(growSizeInBytes, v.m_pageSize)
        addressSpaceEndReached == v.m_physical_mem_end = v.m_virtual_mem_end
        allocation ==
            GetPhysicalMemory(v.m_physical_mem_end, roundedGrowSize, commitOk)
        newEnd == Add(allocation, roundedGrowSize)
    IN  IF Stopped(m) THEN m
        ELSE IF growSizeInBytes = 0 THEN m
        ELSE IF addressSpaceEndReached
             THEN [m EXCEPT !.fault = "assert: cannot grow further"]
        ELSE [m EXCEPT
                !.log = Append(@, <<"grow", growSizeInBytes, roundedGrowSize>>),
                !.v.m_physical_mem_end = newEnd,
                !.v.committed_end =
                    IF commitOk THEN Add(@, roundedGrowSize) ELSE @,
                !.v.m_capacity =
                    Sub(newEnd, v.m_physical_mem_begin) \div sizeofT]

GrowByBytes(m, growSizeInBytes, commitOk) ==
    LET v == m.v
        rounded == roundUpToMultiple(growSizeInBytes, v.m_pageSize)
        addressSpaceEndReached == v.m_physical_mem_end = v.m_virtual_mem_end
        roundedGrowSize ==
            IF Add(v.m_physical_mem_end, rounded) > v.m_virtual_mem_end
            THEN roundDownToMultiple(
                     Sub(v.m_virtual_mem_end, v.m_physical_mem_end),
                     v.m_pageSize)
            ELSE rounded
        allocation ==
            GetPhysicalMemory(v.m_physical_mem_end, roundedGrowSize, commitOk)
        newEnd == Add(allocation, roundedGrowSize)
    IN  IF Stopped(m) THEN m
        ELSE IF growSizeInBytes = 0 THEN m
        ELSE IF addressSpaceEndReached
             THEN [m EXCEPT !.fault = "assert: cannot grow further"]
        ELSE [m EXCEPT
                !.log = Append(@, <<"grow", growSizeInBytes, roundedGrowSize>>),
                !.v.m_physical_mem_end = newEnd,
                !.v.committed_end =
                    IF commitOk THEN Add(@, roundedGrowSize) ELSE @,
                !.v.m_capacity =
                    Sub(newEnd, v.m_physical_mem_begin) \div sizeofT]

\* ++m_size after the placement new
IncSize(m) ==
    IF m.fault # None THEN m
    ELSE [m EXCEPT !.v.m_size = Add(@, 1)]

\* push_back without the ++m_size
push_back_noinc(v, object, commitOk, foreign) ==
    LET m0 == Run(v)
        m1 == IF v.m_capacity = v.m_size
              THEN GrowByBytes(m0, Mul(GetGrowSizeInElements(v), sizeofT),
                               commitOk)
              ELSE m0
    IN  CopyConstruct(m1, m1.v.m_size, object, foreign)

push_back(v, object, commitOk, foreign) ==
    LET m0 == Run(v)
        m1 == IF v.m_capacity = v.m_size
              THEN GrowByBytes(m0, Mul(GetGrowSizeInElements(v), sizeofT),
                               commitOk)
              ELSE m0
        m2 == CopyConstruct(m1, m1.v.m_size, object, foreign)
    IN  IncSize(m2)

\* reserve that asks for elements where GrowByBytes takes bytes
reserve_elements(v, newCapacity, commitOk) ==
    LET m0 == Run(v)
    IN  IF newCapacity > GetMaxElements
        THEN [m0 EXCEPT !.fault = "assert: reserve exceeds max capacity"]
        ELSE IF newCapacity <= v.m_capacity THEN m0
        ELSE GrowByBytes(m0, Sub(newCapacity, v.m_capacity), commitOk)

\* reserve without the assert on GetMaxElements
reserve_unchecked(v, newCapacity, commitOk) ==
    LET m0 == Run(v)
    IN  IF newCapacity <= v.m_capacity THEN m0
        ELSE GrowByBytes(m0, Mul(Sub(newCapacity, v.m_capacity), sizeofT),
                         commitOk)

reserve(v, newCapacity, commitOk) ==
    LET m0 == Run(v)
        capacityRequestExceedsAvailableRange == newCapacity > GetMaxElements
    IN  IF capacityRequestExceedsAvailableRange
        THEN [m0 EXCEPT !.fault = "assert: reserve exceeds max capacity"]
        ELSE IF newCapacity <= v.m_capacity THEN m0
        ELSE GrowByBytes(m0, Mul(Sub(newCapacity, v.m_capacity), sizeofT),
                         commitOk)

\* for (i = from; i < to; ++i) new (slot i) T  /  new (slot i) T(object)
RECURSIVE ConstructLoop(_, _, _, _, _, _)
ConstructLoop(m, i, to, withObject, object, foreign) ==
    IF Stopped(m) \/ ~(i < to) THEN m
    ELSE ConstructLoop(
             IF withObject THEN CopyConstruct(m, i, object, foreign)
                           ELSE DefaultConstruct(m, i, foreign),
             Add(i, 1), to, withObject, object, foreign)

\* for (i = from; i < to; ++i) slot i .~T()
RECURSIVE DestroyLoop(_, _, _, _)
DestroyLoop(m, i, to, foreign) ==
    IF Stopped(m) \/ ~(i < to) THEN m
    ELSE DestroyLoop(Destroy(m, i, foreign), Add(i, 1), to, foreign)

\* m_size = newSize at the end of a member function
SetSize(m, newSize) ==
    IF Stopped(m) THEN m ELSE [m EXCEPT !.v.m_size = newSize]

\* resize whose construction loop stops one slot early
ResizeBody_short(v, newSize, withObject, object, commitOk, foreign) ==
    LET m0 == Run(v)
        grown == IF newSize > v.m_capacity
                 THEN GrowByBytes(m0,
                          Mul(Sub(newSize, v.m_capacity), sizeofT), commitOk)
                 ELSE m0
    IN  IF newSize > GetMaxElements
        THEN [m0 EXCEPT !.fault = "assert: resize exceeds max capacity"]
        ELSE IF newSize = v.m_size THEN m0
        ELSE IF newSize > v.m_size
             THEN SetSize(ConstructLoop(grown, v.m_size, newSize - 1,
                                        withObject, object, foreign),
                          newSize)
        ELSE SetSize(DestroyLoop(m0, newSize, v.m_size, foreign), newSize)

\* resize that hands the capacity back when it shrinks
ResizeBody_fit(v, newSize, withObject, object, commitOk, foreign) ==
    LET m0 == Run(v)
        grown == IF newSize > v.m_capacity
                 THEN GrowByBytes(m0,
                          Mul(Sub(newSize, v.m_capacity), sizeofT), commitOk)
                 ELSE m0
        shrunk == SetSize(DestroyLoop(m0, newSize, v.m_size, foreign), newSize)
    IN  IF newSize > GetMaxElements
        THEN [m0 EXCEPT !.fault = "assert: resize exceeds max capacity"]
        ELSE IF newSize = v.m_size THEN m0
        ELSE IF newSize > v.m_size
             THEN SetSize(ConstructLoop(grown, v.m_size, newSize,
                                        withObject, object, foreign),
                          newSize)
        ELSE [shrunk EXCEPT !.v.m_capacity = newSize]

\* the common body of resize(newSize) and resize(newSize, object)
ResizeBody(v, newSize, withObject, object, commitOk, foreign) ==
    LET m0 == Run(v)
        resizeRequestExceedsAvailableRange == newSize > GetMaxElements
        grown == IF newSize > v.m_capacity
                 THEN GrowByBytes(m0,
                          Mul(Sub(newSize, v.m_capacity), sizeofT), commitOk)
                 ELSE m0
    IN  IF resizeRequestExceedsAvailableRange
        THEN [m0 EXCEPT !.fault = "assert: resize exceeds max capacity"]
        ELSE IF newSize = v.m_size THEN m0
        ELSE IF newSize > v.m_size
             THEN SetSize(ConstructLoop(grown, v.m_size, newSize,
                                        withObject, object, foreign),
                          newSize)
        ELSE SetSize(DestroyLoop(m0, newSize, v.m_size, foreign), newSize)

resize(v, newSize, commitOk, foreign) ==
    ResizeBody(v, newSize, FALSE, DefaultValue, commitOk, foreign)

resize_object(v, newSize, object, commitOk, foreign) ==
    ResizeBody(v, newSize, TRUE, object, commitOk, foreign)

\* for (i = index; i < to; ++i) slot i = slot i + offset
RECURSIVE ShiftLoop(_, _, _, _, _)
ShiftLoop(m, i, to, offset, foreign) ==
    IF Stopped(m) \/ ~(i < to) THEN m
    ELSE ShiftLoop(Assign(m, i, Add(i, offset), foreign),
                   Add(i, 1), to, offset, foreign)

\* erase that destroys the erased element before it shifts the rest onto it
erase_destroy_first(v, index, foreign) ==
    LET m0 == Run(v)
        destroyed == Destroy(m0, index, foreign)
        shifted == ShiftLoop(destroyed, index, Sub(v.m_size, 1), 1, foreign)
    IN  IF ~(index < v.m_size)
        THEN [m0 EXCEPT !.fault = "assert: index out of range"]
        ELSE SetSize(shifted, Sub(v.m_size, 1))

\* erase that clamps an index behind the last element to the last element
erase_clamped(v, index, foreign) ==
    LET m0 == Run(v)
        clamped == IF index < v.m_size THEN index ELSE Sub(v.m_size, 1)
        shifted == ShiftLoop(m0, clamped, Sub(v.m_size, 1), 1, foreign)
        destroyed == Destroy(shifted, Sub(v.m_size, 1), foreign)
    IN  IF v.m_size = 0
        THEN [m0 EXCEPT !.fault = "assert: index out of range"]
        ELSE SetSize(destroyed, Sub(v.m_size, 1))

\* erase whose shift loop starts one slot late
erase_late(v, index, foreign) ==
    LET m0 == Run(v)
        shifted == ShiftLoop(m0, Add(index, 1), Sub(v.m_size, 1), 1, foreign)
        destroyed == Destroy(shifted, Sub(v.m_size, 1), foreign)
    IN  IF ~(index < v.m_size)
        THEN [m0 EXCEPT !.fault = "assert: index out of range"]
        ELSE SetSize(destroyed, Sub(v.m_size, 1))

erase(v, index, foreign) ==
    LET m0 == Run(v)
        isIndexInRange == index < v.m_size
        shifted == ShiftLoop(m0, index, Sub(v.m_size, 1), 1, foreign)
        destroyed == Destroy(shifted, Sub(v.m_size, 1), foreign)
    IN  IF ~isIndexInRange
        THEN [m0 EXCEPT !.fault = "assert: index out of range"]
        ELSE SetSize(destroyed, Sub(v.m_size, 1))

\* erase(rangeBegin, rangeEnd) that erases one element when the two are equal
erase_range_single(v, rangeBegin, rangeEnd, foreign) ==
    LET m0 == Run(v)
        elementsToDelete == Add(Sub(rangeEnd, rangeBegin), 1)
        shifted == ShiftLoop(m0, rangeBegin, Sub(v.m_size, elementsToDelete),
                             elementsToDelete, foreign)
        destroyed == DestroyLoop(shifted, Sub(v.m_size, elementsToDelete),
                                 v.m_size, foreign)
    IN  IF ~(rangeEnd >= rangeBegin)
        THEN [m0 EXCEPT !.fault = "assert: end index before start index"]
        ELSE IF ~(rangeEnd <= Sub(v.m_size, 1))
        THEN [m0 EXCEPT !.fault = "assert: end index out of range"]
        ELSE SetSize(destroyed, Sub(v.m_size, elementsToDelete))

\* erase(rangeBegin, rangeEnd) that takes the range as half open
erase_range_halfopen(v, rangeBegin, rangeEnd, foreign) ==
    LET m0 == Run(v)
        elementsToDelete == Sub(rangeEnd, rangeBegin)
        shifted == ShiftLoop(m0, rangeBegin, Sub(v.m_size, elementsToDelete),
                             elementsToDelete, foreign)
        destroyed == DestroyLoop(shifted, Sub(v.m_size, elementsToDelete),
                                 v.m_size, foreign)
    IN  IF ~(rangeEnd >= rangeBegin)
        THEN [m0 EXCEPT !.fault = "assert: end index before start index"]
        ELSE IF ~(rangeEnd <= Sub(v.m_size, 1))
        THEN [m0 EXCEPT !.fault = "assert: end index out of range"]
        ELSE IF rangeBegin # rangeEnd
        THEN SetSize(destroyed, Sub(v.m_size, elementsToDelete))
        ELSE m0

erase_range(v, rangeBegin, rangeEnd, foreign) ==
    LET m0 == Run(v)
        isEndBiggerThanOrEqualToStart == rangeEnd >= rangeBegin
        isEndInVector == rangeEnd <= Sub(v.m_size, 1)
        elementsToDelete == Add(Sub(rangeEnd, rangeBegin), 1)
        shifted == ShiftLoop(m0, rangeBegin, Sub(v.m_size, elementsToDelete),
                             elementsToDelete, foreign)
        destroyed == DestroyLoop(shifted, Sub(v.m_size, elementsToDelete),
                                 v.m_size, foreign)
    IN  IF ~isEndBiggerThanOrEqualToStart
        THEN [m0 EXCEPT !.fault = "assert: end index before start index"]
        ELSE IF ~isEndInVector
        THEN [m0 EXCEPT !.fault = "assert: end index out of range"]
        ELSE IF rangeBegin # rangeEnd
        THEN SetSize(destroyed, Sub(v.m_size, elementsToDelete))
        ELSE m0

\* erase_by_swap that also assigns the last element onto itself
erase_by_swap_always(v, index, foreign) ==
    LET m0 == Run(v)
        lastElement == Sub(v.m_size, 1)
        swapped == Assign(m0, index, lastElement, foreign)
        destroyed == Destroy(swapped, lastElement, foreign)
    IN  IF ~(index < v.m_size)
        THEN [m0 EXCEPT !.fault = "assert: index out of range"]
        ELSE SetSize(destroyed, Sub(v.m_size, 1))

erase_by_swap(v, index, foreign) ==
    LET m0 == Run(v)
        isIndexInRange == index < v.m_size
        lastElement == Sub(v.m_size, 1)
        swapped == IF index < Sub(v.m_size, 1)
                   THEN Assign(m0, index, lastElement, foreign)
                   ELSE m0
        destroyed == Destroy(swapped, lastElement, foreign)
    IN  IF ~isIndexInRange
        THEN [m0 EXCEPT !.fault = "assert: index out of range"]
        ELSE SetSize(destroyed, Sub(v.m_size, 1))

\* v[index] = value through the reference that operator[] returns
subscript_write(v, index, value) ==
    LET m0 == Run(v)
    IN  IF ~(index < v.m_size)
        THEN [m0 EXCEPT !.fault = "assert: subscript out of range"]
        ELSE [m0 EXCEPT !.v.mem[index] = value]

\* the run m followed by the run n of the next call on the object m left
Then(m, n) ==
    IF Stopped(m) THEN m ELSE [n EXCEPT !.log = m.log \o @]

\* for (i = 0; i < other.m_size; ++i) push_back(other[i])
RECURSIVE PushBackLoop(_, _, _, _, _)
PushBackLoop(m, other, i, commitOk, foreign) ==
    IF Stopped(m) \/ ~(i < other.m_size) THEN m
    ELSE PushBackLoop(
             Then(m, push_back(m.v, other.mem[i], commitOk, foreign)),
             other, Add(i, 1), commitOk, foreign)

\* a copy constructor that takes over the pointers of other
Vector_copy_shallow(other, begin, commitOk, foreign) ==
    Run(other)

\* the copy constructor without its reserve(other.m_capacity)
Vector_copy_noreserve(other, begin, commitOk, foreign) ==
    PushBackLoop(Run(VectorAt(begin)), other, 0, commitOk, foreign)

\* Vector<T>::Vector(const Vector<T>& other), the new range reserved at begin
Vector_copy(other, begin, commitOk, foreign) ==
    LET m0 == Run(VectorAt(begin))
        reserved == Then(m0, reserve(m0.v, other.m_capacity, commitOk))
    IN  PushBackLoop(reserved, other, 0, commitOk, foreign)

\* an assignment that overwrites without destroying the old elements
operator_assign_nodestroy(v, this, other, otherAddr, commitOk, foreign) ==
    LET m0 == Run(v)
        reserved == IF other.m_capacity > v.m_capacity
                    THEN Then(m0, reserve(m0.v, other.m_capacity, commitOk))
                    ELSE m0
        cleared == SetSize(reserved, 0)
    IN  IF this # otherAddr
        THEN PushBackLoop(cleared, other, 0, commitOk, foreign)
        ELSE m0

\* an assignment that rebuilds the object as a copy of other in its range
operator_assign_rebuild(v, this, other, otherAddr, commitOk, foreign) ==
    LET m0 == Run(v)
        destroyed == DestroyLoop(m0, 0, v.m_size, foreign)
        fresh == [destroyed EXCEPT !.v = VectorAt(v.m_virtual_mem_begin)]
        reserved == Then(fresh, reserve(fresh.v, other.m_capacity, commitOk))
    IN  IF this # otherAddr
        THEN PushBackLoop(reserved, other, 0, commitOk, foreign)
        ELSE m0

\* Vector<T>::operator=(const Vector<T>& other); this and otherAddr are the
\* addresses of the two objects
\* operator= without the test for self-assignment
operator_assign_noselfcheck(v, this, other, otherAddr, commitOk, foreign) ==
    LET m0 == Run(v)
        destroyed == DestroyLoop(m0, 0, v.m_size, foreign)
        reserved == IF other.m_capacity > v.m_capacity
                    THEN Then(destroyed,
                              reserve(destroyed.v, other.m_capacity, commitOk))
                    ELSE destroyed
        cleared == SetSize(reserved, 0)
    IN  PushBackLoop(cleared, IF this = otherAddr THEN cleared.v ELSE other,
                     0, commitOk, foreign)

operator_assign(v, this, other, otherAddr, commitOk, foreign) ==
    LET m0 == Run(v)
        destroyed == DestroyLoop(m0, 0, v.m_size, foreign)
        reserved == IF other.m_capacity > v.m_capacity
                    THEN Then(destroyed,
                              reserve(destroyed.v, other.m_capacity, commitOk))
                    ELSE destroyed
        cleared == SetSize(reserved, 0)
    IN  IF this # otherAddr
        THEN PushBackLoop(cleared, other, 0, commitOk, foreign)
        ELSE m0

\* VirtualMemory::FreeAddressSpace(m_virtual_mem_begin): the whole range is
\* released, nothing stays committed
FreeAddressSpace(m, from) ==
    IF Stopped(m) THEN m
    ELSE [m EXCEPT !.log = Append(@, <<"release", from>>),
                   !.v.committed_end = from]

\* a destructor that releases the range before it destroys the elements
Vector_dtor_release_first(v, foreign) ==
    LET released == FreeAddressSpace(Run(v), v.m_virtual_mem_begin)
    IN  DestroyLoop(released, 0, v.m_size, foreign)

\* Vector<T>::~Vector()
Vector_dtor(v, foreign) ==
    LET destroyed == DestroyLoop(Run(v), 0, v.m_size, foreign)
    IN  FreeAddressSpace(destroyed, v.m_virtual_mem_begin)

\* the contents of the vector as operator[] shows them: v[0] .. v[size-1]
Elements(v) == [i \in 1 .. v.m_size |-> v.mem[i - 1]]

(***************************************************************************)
(* Vector<T> of CustomVector.cpp                                           *)
(***************************************************************************)
roundUp(numToRound, multiple) ==
    IF multiple = 0 THEN numToRound
    ELSE LET remainder == numToRound % multiple
         IN  IF remainder = 0 THEN numToRound
             ELSE Sub(Add(numToRound, multiple), remainder)

\* Vector<T>::Vector() and Init()
Vector_cv ==
    LET begin == ReserveAddressSpace
    IN  [ m_internal_array         |-> begin,
          m_size                   |-> 0,
          m_capacity               |-> 0,
          m_virtual_memory_begin   |-> begin,
          m_virtual_memory_end     |-> Add(begin, MAX_VECTOR_CAPACITY),
          m_committed_memory_begin |-> begin,
          m_committed_memory_end   |-> begin,
          m_pageSize               |-> GetPageSize,
          committed_end            |-> begin,
          mem                      |-> [i \in 0 .. GetMaxElements |-> Raw] ]

GetDefaultGrowSize(v) == Mul(v.m_capacity, sizeofT)

Grow(m, growSize, commitOk) ==
    LET v == m.v
        rounded == IF growSize # 0 THEN roundUp(growSize, v.m_pageSize)
                   ELSE roundUp(sizeofT, v.m_pageSize)
        clamped ==
            IF Add(v.m_committed_memory_end, rounded) > v.m_virtual_memory_end
            THEN Sub(v.m_virtual_memory_end, v.m_committed_memory_end)
            ELSE rounded
        isEndOfVirtualMemoryReached ==
            v.m_committed_memory_end = v.m_virtual_memory_end
        newPage == GetPhysicalMemory(v.m_committed_memory_end, clamped, commitOk)
        newEnd == Add(newPage, clamped)
    IN  IF Stopped(m) THEN m
        ELSE IF isEndOfVirtualMemoryReached
             THEN [m EXCEPT !.fault = "assert: maximum capacity reached"]
        ELSE [m EXCEPT
                !.log = Append(@, <<"grow", growSize, clamped>>),
                !.v.m_committed_memory_end = newEnd,
                !.v.committed_end = IF commitOk THEN Add(@, clamped) ELSE @,
                !.v.m_capacity =
                    Sub(newEnd, v.m_committed_memory_begin) \div sizeofT]

push_back_cv(v, object, commitOk, foreign) ==
    LET m0 == Run(v)
        m1 == IF v.m_capacity = v.m_size
              THEN Grow(m0, GetDefaultGrowSize(v), commitOk)
              ELSE m0
        m2 == CopyConstruct(m1, m1.v.m_size, object, foreign)
    IN  IncSize(m2)

\* the common body of resize(newSize) and resize(newSize, object)
ResizeBody_cv(v, newSize, withObject, object, commitOk, foreign) ==
    LET m0 == Run(v)
        grown == IF v.m_capacity < newSize
                 THEN Grow(m0, Mul(Sub(newSize, v.m_capacity), sizeofT),
                           commitOk)
                 ELSE m0
    IN  IF newSize = v.m_size THEN m0
        ELSE IF newSize > v.m_size
             THEN SetSize(ConstructLoop(grown, v.m_size, newSize,
                                        withObject, object, foreign),
                          newSize)
        ELSE SetSize(DestroyLoop(m0, newSize, v.m_size, foreign), newSize)

resize_cv(v, newSize, commitOk, foreign) ==
    ResizeBody_cv(v, newSize, FALSE, DefaultValue, commitOk, foreign)

resize_object_cv(v, newSize, object, commitOk, foreign) ==
    ResizeBody_cv(v, newSize, TRUE, object, commitOk, foreign)

reserve_cv(v, newCapacity, commitOk) ==
    LET m0 == Run(v)
    IN  IF newCapacity < v.m_capacity THEN m0
        ELSE Grow(m0, Mul(Sub(newCapacity, v.m_capacity), sizeofT), commitOk)

\* memmove(slot dst, slot src, count * sizeof(T)): the bytes of count slots
MemMove(m, dst, src, count, foreign) ==
    LET lastSlot == (IF dst > src THEN dst ELSE src) + count - 1
        acc == Access(m.v, lastSlot)
    IN  IF Stopped(m) \/ count = 0 THEN m
        ELSE IF acc = "foreign" /\ foreign THEN [m EXCEPT !.ub = TRUE]
        ELSE IF acc # "ok" THEN [m EXCEPT !.fault = AccessViolation]
        ELSE [m EXCEPT
                !.v.mem = [i \in DOMAIN @ |->
                             IF i >= dst /\ i < dst + count
                             THEN m.v.mem[src + (i - dst)] ELSE @[i]],
                !.log = Append(@, <<"memmove", dst, src, count>>)]

\* --m_size at the end of a member function
DecSize(m) ==
    IF Stopped(m) THEN m ELSE [m EXCEPT !.v.m_size = Sub(@, 1)]

erase_cv(v, index, foreign) ==
    LET m0 == Run(v)
        destroyed == Destroy(m0, index, foreign)
        moved == IF index < Sub(v.m_size, 1)
                 THEN MemMove(destroyed, index, Add(index, 1),
                              Sub(Sub(v.m_size, 1), index), foreign)
                 ELSE destroyed
    IN  DecSize(moved)

erase_range_cv(v, startIndex, endIndex, foreign) ==
    LET m0 == Run(v)
        isEndBiggerThanStart == endIndex > startIndex
        destroyed == DestroyLoop(m0, startIndex, Add(endIndex, 1), foreign)
        moved == IF endIndex < Sub(v.m_size, 1)
                 THEN MemMove(destroyed, startIndex, Add(endIndex, 1),
                              Sub(Sub(v.m_size, 1), endIndex), foreign)
                 ELSE destroyed
    IN  IF startIndex = endIndex THEN erase_cv(v, endIndex, foreign)
        ELSE IF ~isEndBiggerThanStart
        THEN [m0 EXCEPT !.fault = "assert: end index not after start index"]
        ELSE moved

erase_by_swap_cv(v, index, foreign) ==
    LET m0 == Run(v)
        destroyed == Destroy(m0, index, foreign)
        moved == IF index < Sub(v.m_size, 1)
                 THEN MemMove(destroyed, index, Sub(v.m_size, 1), 1, foreign)
                 ELSE destroyed
    IN  DecSize(moved)

(***************************************************************************)
(* The program: one Vector<T>, any sequence of calls                       *)
(***************************************************************************)
Init ==
    /\ sizeofT \in ElemSizes
    /\ a = Vector
    /\ b = NoVector
    /\ u = Vector_cv
    /\ last = NoCall
    /\ fault = None
    /\ ub = FALSE

\* A run is a sequence of calls that ends with the one call that is observed
\* (as a test arranges a vector and then inspects one call), or with a
\* failed assert or an access violation.
Running == fault = None /\ ~ub /\ last = NoCall

\* the outcomes of a call that may touch memory behind the reserved range:
\* m is its run when that memory is writable
Foreign(m) == IF m.ub THEN BOOLEAN ELSE {TRUE}

\* the call op(args) on the object on made the element operations log
Observe(on, op, args, log) ==
    \E observed \in BOOLEAN :
       last' = IF observed
               THEN [op |-> op, on |-> on, args |-> args, log |-> log]
               ELSE NoCall

\* the call op(args) on a ran as m
Return(op, args, m) ==
    /\ a' = m.v
    /\ Observe("a", op, args, m.log)
    /\ fault' = m.fault
    /\ ub' = m.ub
    /\ UNCHANGED <<sizeofT, b, u>>

PushBack ==
    /\ Running
    /\ \E object \in Values :
          \E foreign \in Foreign(push_back(a, object, TRUE, TRUE)) :
             Return("push_back", <<object>>,
                    push_back(a, object, TRUE, foreign))

Reserve ==
    /\ Running
    /\ \E newCapacity \in 0 .. GetMaxElements + 1 :
          Return("reserve", <<newCapacity>>, reserve(a, newCapacity, TRUE))

Resize ==
    /\ Running
    /\ \E newSize \in 0 .. GetMaxElements + 1 :
          \E foreign \in Foreign(resize(a, newSize, TRUE, TRUE)) :
             Return("resize", <<newSize>>, resize(a, newSize, TRUE, foreign))

ResizeObject ==
    /\ Running
    /\ \E newSize \in 0 .. GetMaxElements + 1, object \in Values :
          \E foreign \in Foreign(resize_object(a, newSize, object, TRUE, TRUE)) :
             Return("resize_object", <<newSize, object>>,
                    resize_object(a, newSize, object, TRUE, foreign))

Erase ==
    /\ Running
    /\ \E index \in 0 .. GetMaxElements :
          \E foreign \in Foreign(erase(a, index, TRUE)) :
             Return("erase", <<index>>, erase(a, index, foreign))

EraseRange ==
    /\ Running
    /\ \E rangeBegin \in 0 .. GetMaxElements, rangeEnd \in 0 .. GetMaxElements :
          \E foreign \in Foreign(erase_range(a, rangeBegin, rangeEnd, TRUE)) :
             Return("erase_range", <<rangeBegin, rangeEnd>>,
                    erase_range(a, rangeBegin, rangeEnd, foreign))

EraseBySwap ==
    /\ Running
    /\ \E index \in 0 .. GetMaxElements :
          \E foreign \in Foreign(erase_by_swap(a, index, TRUE)) :
             Return("erase_by_swap", <<index>>,
                    erase_by_swap(a, index, foreign))

SubscriptWrite ==
    /\ Running
    /\ \E index \in 0 .. GetMaxElements, value \in Values :
          Return("subscript_write", <<index, value>>,
                 subscript_write(a, index, value))

Next ==
    \/ PushBack
    \/ Reserve
    \/ Resize
    \/ ResizeObject
    \/ Erase
    \/ EraseRange
    \/ EraseBySwap
    \/ SubscriptWrite

Spec == Init /\ [][Next]_vars

(***************************************************************************)
(* The program of CustomVector.cpp: one Vector<T>, any sequence of calls   *)
(***************************************************************************)
\* the call op(args) on u ran as m
Return_cv(op, args, m) ==
    /\ u' = m.v
    /\ Observe("u", op, args, m.log)
    /\ fault' = m.fault
    /\ ub' = m.ub
    /\ UNCHANGED <<sizeofT, a, b>>

PushBack_cv ==
    /\ Running
    /\ \E object \in Values :
          \E foreign \in Foreign(push_back_cv(u, object, TRUE, TRUE)) :
             Return_cv("push_back", <<object>>,
                       push_back_cv(u, object, TRUE, foreign))

Reserve_cv ==
    /\ Running
    /\ \E newCapacity \in 0 .. GetMaxElements + 1 :
          Return_cv("reserve", <<newCapacity>>,
                    reserve_cv(u, newCapacity, TRUE))

Resize_cv ==
    /\ Running
    /\ \E newSize \in 0 .. GetMaxElements + 1 :
          \E foreign \in Foreign(resize_cv(u, newSize, TRUE, TRUE)) :
             Return_cv("resize", <<newSize>>,
                       resize_cv(u, newSize, TRUE, foreign))

ResizeObject_cv ==
    /\ Running
    /\ \E newSize \in 0 .. GetMaxElements + 1, object \in Values :
          \E foreign \in
                Foreign(resize_object_cv(u, newSize, object, TRUE, TRUE)) :
             Return_cv("resize_object", <<newSize, object>>,
                       resize_object_cv(u, newSize, object, TRUE, foreign))

Erase_cv ==
    /\ Running
    /\ \E index \in 0 .. GetMaxElements :
          \E foreign \in Foreign(erase_cv(u, index, TRUE)) :
             Return_cv("erase", <<index>>, erase_cv(u, index, foreign))

EraseRange_cv ==
    /\ Running
    /\ \E startIndex \in 0 .. GetMaxElements, endIndex \in 0 .. GetMaxElements :
          \E foreign \in Foreign(erase_range_cv(u, startIndex, endIndex, TRUE)) :
             Return_cv("erase_range", <<startIndex, endIndex>>,
                       erase_range_cv(u, startIndex, endIndex, foreign))

EraseBySwap_cv ==
    /\ Running
    /\ \E index \in 0 .. GetMaxElements :
          \E foreign \in Foreign(erase_by_swap_cv(u, index, TRUE)) :
             Return_cv("erase_by_swap", <<index>>,
                       erase_by_swap_cv(u, index, foreign))

SubscriptWrite_cv ==
    /\ Running
    /\ \E index \in 0 .. GetMaxElements, value \in Values :
          Return_cv("subscript_write", <<index, value>>,
                    subscript_write(u, index, value))

NextFull ==
    \/ PushBack_cv
    \/ Reserve_cv
    \/ Resize_cv
    \/ ResizeObject_cv
    \/ Erase_cv
    \/ EraseRange_cv
    \/ EraseBySwap_cv
    \/ SubscriptWrite_cv

\* memmove leaves stale bytes behind the elements, so every slot of this
\* vector takes every content; the instantiations explored are those with
\* fewer than two elements to the page
InitFull == Init /\ 2 * sizeofT > PageSize

SpecFull == InitFull /\ [][NextFull]_vars

(***************************************************************************)
(* Both implementations driven by the same calls, as the two test programs *)
(* drive them (TestBasicTypePushBack / PushBack, TestReserving / Reserve)  *)
(***************************************************************************)
\* the call op(args) ran as ma on a and as mu on u
ReturnBoth(op, args, ma, mu) ==
    /\ a' = ma.v
    /\ u' = mu.v
    /\ Observe("a", op, args, ma.log)
    /\ fault' = IF ma.fault # None THEN ma.fault ELSE mu.fault
    /\ ub' = (ma.ub \/ mu.ub)
    /\ UNCHANGED <<sizeofT, b>>

BothPushBack ==
    /\ Running
    /\ \E object \in Values :
          \E foreign \in Foreign(push_back(a, object, TRUE, TRUE))
                           \cup Foreign(push_back_cv(u, object, TRUE, TRUE)) :
             ReturnBoth("push_back", <<object>>,
                        push_back(a, object, TRUE, foreign),
                        push_back_cv(u, object, TRUE, foreign))

BothReserve ==
    /\ Running
    /\ \E newCapacity \in 0 .. GetMaxElements + 1 :
          ReturnBoth("reserve", <<newCapacity>>,
                     reserve(a, newCapacity, TRUE),
                     reserve_cv(u, newCapacity, TRUE))

NextBoth ==
    \/ BothPushBack
    \/ BothReserve

SpecBoth == Init /\ [][NextBoth]_vars

(***************************************************************************)
(* Two Vector<T> objects of CustomVector_lean.cpp, a and b, as the tests   *)
(* CopyConstruction, Assignment, TestAssignment and TestDTORCalls use      *)
(* them: b is copy constructed from a, calls are made on either object,    *)
(* either is assigned to the other or to itself, and an object is          *)
(* destroyed at the end of its scope                                       *)
(***************************************************************************)
Object(this) == IF this = "a" THEN a ELSE b

Constructed(this) == Object(this) # NoVector

\* the memory of the object other after a call on another object left that
\* one as v: objects whose m_internal_array is the same address are the same
\* memory
SharedMemory(other, v) ==
    IF other # NoVector /\ other.m_internal_array = v.m_internal_array
    THEN [other EXCEPT !.mem = v.mem, !.committed_end = v.committed_end]
    ELSE other

\* a call on the object this ran as m
Ran(this, m) ==
    /\ IF this = "a"
       THEN a' = m.v /\ b' = SharedMemory(b, m.v)
       ELSE b' = m.v /\ a' = SharedMemory(a, m.v)
    /\ fault' = m.fault
    /\ ub' = m.ub
    /\ UNCHANGED <<sizeofT, u>>

\* the call op(args) that constructs, assigns or destroys the object this
\* ran as m
ReturnOn(this, op, args, m) ==
    /\ Ran(this, m)
    /\ Observe(this, op, args, m.log)

\* a call of another member function on the object this ran as m; these
\* calls arrange the two objects, are made with arguments that the member
\* function accepts, and are not observed
CallOn(this, m) ==
    /\ Ran(this, m)
    /\ last' = NoCall

\* the outcomes of a call that may touch memory behind the reserved range:
\* writable is its run when that memory is writable, refused its run when
\* the access is refused
Outcomes(writable, refused) ==
    IF writable.ub THEN {writable, refused} ELSE {writable}

\* Vector<T> b(a);
CopyConstructor ==
    /\ Running
    /\ b = NoVector
    /\ \E m \in Outcomes(Vector_copy(a, ReservedBases[2], TRUE, TRUE),
                         Vector_copy(a, ReservedBases[2], TRUE, FALSE)) :
          ReturnOn("b", "Vector(copy)", <<"a">>, m)

\* a = b;  b = a;  a = a;  b = b;
Assignment ==
    /\ Running
    /\ \E this \in {"a", "b"}, otherAddr \in {"a", "b"} :
          /\ Constructed(this)
          /\ Constructed(otherAddr)
          /\ \E m \in Outcomes(operator_assign(Object(this), this,
                                  Object(otherAddr), otherAddr, TRUE, TRUE),
                               operator_assign(Object(this), this,
                                  Object(otherAddr), otherAddr, TRUE, FALSE)) :
                ReturnOn(this, "operator=", <<otherAddr>>, m)

\* the end of the scope of an object; the run ends with it
Destructor ==
    /\ Running
    /\ \E this \in {"a", "b"} :
          /\ Constructed(this)
          /\ LET m == Vector_dtor(Object(this), TRUE)
             IN  /\ Ran(this, m)
                 /\ last' = [op |-> "~Vector", on |-> this, args |-> <<>>,
                             log |-> m.log]

PushBackOn ==
    /\ Running
    /\ \E this \in {"a", "b"}, object \in {DefaultValue, MaxVal} :
          /\ Constructed(this)
          /\ \E m \in Outcomes(push_back(Object(this), object, TRUE, TRUE),
                               push_back(Object(this), object, TRUE, FALSE)) :
                CallOn(this, m)

ReserveOn ==
    /\ Running
    /\ \E this \in {"a", "b"}, newCapacity \in 1 .. GetMaxElements :
          /\ Constructed(this)
          /\ newCapacity > capacity(Object(this))
          /\ CallOn(this, reserve(Object(this), newCapacity, TRUE))

ResizeOn ==
    /\ Running
    /\ \E this \in {"a", "b"}, newSize \in 0 .. GetMaxElements :
          /\ Constructed(this)
          /\ newSize # size(Object(this))
          /\ \E m \in Outcomes(resize(Object(this), newSize, TRUE, TRUE),
                               resize(Object(this), newSize, TRUE, FALSE)) :
                CallOn(this, m)

EraseOn ==
    /\ Running
    /\ \E this \in {"a", "b"}, index \in 0 .. GetMaxElements :
          /\ Constructed(this)
          /\ index < size(Object(this))
          /\ \E m \in Outcomes(erase(Object(this), index, TRUE),
                               erase(Object(this), index, FALSE)) :
                CallOn(this, m)

\* erase(i, i) and erase(i, i + 1), as the tests erase
EraseRangeOn ==
    /\ Running
    /\ \E this \in {"a", "b"}, rangeBegin \in 0 .. GetMaxElements :
       \E rangeEnd \in {rangeBegin, rangeBegin + 1} :
          /\ Constructed(this)
          /\ rangeEnd < size(Object(this))
          /\ \E m \in Outcomes(
                       erase_range(Object(this), rangeBegin, rangeEnd, TRUE),
                       erase_range(Object(this), rangeBegin, rangeEnd, FALSE)) :
                CallOn(this, m)

EraseBySwapOn ==
    /\ Running
    /\ \E this \in {"a", "b"}, index \in 0 .. GetMaxElements :
          /\ Constructed(this)
          /\ index < size(Object(this))
          /\ \E m \in Outcomes(erase_by_swap(Object(this), index, TRUE),
                               erase_by_swap(Object(this), index, FALSE)) :
                CallOn(this, m)

NextPair ==
    \/ CopyConstructor
    \/ Assignment
    \/ Destructor
    \/ PushBackOn
    \/ ReserveOn
    \/ ResizeOn
    \/ EraseOn
    \/ EraseRangeOn
    \/ EraseBySwapOn

\* the instantiations explored are those with fewer than two elements to
\* the page
InitPair == Init /\ 2 * sizeofT > PageSize

SpecPair == InitPair /\ [][NextPair]_vars

(***************************************************************************)
(* One Vector<T> of CustomVector_lean.cpp on a platform that may refuse to *)
(* commit memory: VirtualAlloc(.., MEM_COMMIT, ..) returns NULL.  The call *)
(* that was refused is the one observed, and the run ends with it.         *)
(***************************************************************************)
\* the call op(args) on a asked the platform for memory, with the answer
\* commitOk, and ran as m
ReturnCommit(op, args, commitOk, m) ==
    /\ commitOk \/ \E i \in 1 .. Len(m.log) : m.log[i][1] = "grow"
    /\ a' = m.v
    /\ IF commitOk
       THEN Observe("a", op, args \o <<commitOk>>, m.log)
       ELSE last' = [op |-> op, on |-> "a", args |-> args \o <<commitOk>>,
                     log |-> m.log]
    /\ fault' = m.fault
    /\ ub' = m.ub
    /\ UNCHANGED <<sizeofT, b, u>>

PushBackCommit ==
    /\ Running
    /\ \E object \in Values, commitOk \in BOOLEAN :
          \E m \in Outcomes(push_back(a, object, commitOk, TRUE),
                            push_back(a, object, commitOk, FALSE)) :
             ReturnCommit("push_back", <<object>>, commitOk, m)

ReserveCommit ==
    /\ Running
    /\ \E newCapacity \in 0 .. GetMaxElements + 1, commitOk \in BOOLEAN :
          ReturnCommit("reserve", <<newCapacity>>, commitOk,
                       reserve(a, newCapacity, commitOk))

ResizeCommit ==
    /\ Running
    /\ \E newSize \in 0 .. GetMaxElements + 1, commitOk \in BOOLEAN :
          \E m \in Outcomes(resize(a, newSize, commitOk, TRUE),
                            resize(a, newSize, commitOk, FALSE)) :
             ReturnCommit("resize", <<newSize>>, commitOk, m)

NextPlatform ==
    \/ PushBackCommit
    \/ ReserveCommit
    \/ ResizeCommit

SpecPlatform == Init /\ [][NextPlatform]_vars

(***************************************************************************)
(* Properties                                                              *)
(***************************************************************************)
\* number of events of one kind in the log of the observed call
Count(log, kind) == Cardinality({i \in 1 .. Len(log) : log[i][1] = kind})

\* the sequence s without its positions lo .. hi (1-based, inclusive)
Without(s, lo, hi) ==
    [i \in 1 .. Len(s) - (hi - lo + 1) |->
        IF i < lo THEN s[i] ELSE s[i + (hi - lo + 1)]]

\* x rounded up to the next multiple of m
RoundedUp(x, m) == ((x + m - 1) \div m) * m

\* the observed call returned: no assert failed, no access was refused
Returned == fault = None /\ ~ub

\* C1: in every state reached without tripping an assert,
\* 0 <= size() <= capacity() <= MAX_VECTOR_CAPACITY / sizeof(T), for every
\* element size
C1_LengthBound ==
    fault = None =>
        /\ 0 <= size(a)
        /\ size(a) <= capacity(a)
        /\ capacity(a) <= MAX_VECTOR_CAPACITY \div sizeofT

\* C2: a push_back that does not hit the capacity ceiling appends its value:
\* the size grows by one, the new last element is the value, and all earlier
\* elements keep their index and value, also when the push_back had to grow
\* the committed memory (in both implementations)
C2_AppendCorrect ==
    [][(last'.op = "push_back" /\ Returned') =>
          /\ size(a') = size(a) + 1
          /\ Elements(a') = Append(Elements(a), last'.args[1])
          /\ size(u') = size(u) + 1
          /\ Elements(u') = Append(Elements(u), last'.args[1])]_vars

\* a push_back onto a vector that already held elements had to grow it
C2_Witness ==
    /\ last.op = "push_back" /\ Returned
    /\ size(a) >= 3 /\ size(u) >= 3
    /\ Count(last.log, "grow") = 1

\* C3: erase(index) with index < size() removes exactly that element, keeps
\* the order of the others, lowers size() by one and keeps capacity()
C3_EraseOrdered ==
    [][(last'.op = "erase" /\ last'.args[1] < size(a)) =>
          /\ Returned'
          /\ Elements(a') =
                Without(Elements(a), last'.args[1] + 1, last'.args[1] + 1)
          /\ size(a') = size(a) - 1
          /\ capacity(a') = capacity(a)]_vars

\* an element in the middle of at least three was erased
C3_Witness ==
    /\ last.op = "erase" /\ Returned
    /\ last.args[1] >= 1
    /\ size(a) >= last.args[1] + 1
    /\ Elements(a)[1] # Elements(a)[2]

\* C4: erase_by_swap(index) with index < size() lowers size() by one, keeps
\* capacity(), keeps every other surviving element and puts the former last
\* element at index; it makes one assignment if index is not the last
\* position and none if it is, and one destruction
C4_EraseBySwap ==
    [][(last'.op = "erase_by_swap" /\ last'.args[1] < size(a)) =>
          LET index == last'.args[1]
              n == size(a)
          IN  /\ Returned'
              /\ size(a') = n - 1
              /\ capacity(a') = capacity(a)
              /\ \A j \in 0 .. n - 2 : j # index => a'.mem[j] = a.mem[j]
              /\ index < n - 1 => a'.mem[index] = a.mem[n - 1]
              /\ Count(last'.log, "assign") = (IF index < n - 1 THEN 1 ELSE 0)
              /\ Count(last'.log, "dtor") = 1
              /\ Len(last'.log) = (IF index < n - 1 THEN 2 ELSE 1)]_vars

\* the last element was swapped into an earlier position
C4_Witness ==
    /\ last.op = "erase_by_swap" /\ Returned
    /\ size(a) >= 2
    /\ last.args[1] < size(a) - 1
    /\ Count(last.log, "assign") = 1

\* C5: erase(rangeBegin, rangeEnd) with rangeBegin < rangeEnd < size()
\* removes exactly the inclusive range: the others keep their order, size()
\* drops by k = rangeEnd - rangeBegin + 1, capacity() stays, and it makes k
\* destructions and size() - rangeEnd - 1 assignments
C5_EraseRange ==
    [][(/\ last'.op = "erase_range"
        /\ last'.args[1] < last'.args[2]
        /\ last'.args[2] < size(a)) =>
          LET rangeBegin == last'.args[1]
              rangeEnd == last'.args[2]
              n == size(a)
              k == rangeEnd - rangeBegin + 1
          IN  /\ Returned'
              /\ Elements(a') =
                    Without(Elements(a), rangeBegin + 1, rangeEnd + 1)
              /\ size(a') = n - k
              /\ capacity(a') = capacity(a)
              /\ Count(last'.log, "dtor") = k
              /\ Count(last'.log, "assign") = n - rangeEnd - 1
              /\ Len(last'.log) = k + (n - rangeEnd - 1)]_vars

\* a range in the middle was erased and elements behind it were moved down
C5_Witness ==
    /\ last.op = "erase_range" /\ Returned
    /\ 1 <= last.args[1] /\ last.args[1] < last.args[2]
    /\ Count(last.log, "assign") >= 1
    /\ Count(last.log, "dtor") = last.args[2] - last.args[1] + 1
    /\ size(a) > last.args[1]
\* C6: in CustomVector.cpp, erase(startIndex, endIndex) with
\* startIndex < endIndex < size() lowers size() by
\* k = endIndex - startIndex + 1
C6_RangeEraseDecrementsLength ==
    [][(/\ last'.op = "erase_range"
        /\ last'.args[1] < last'.args[2]
        /\ last'.args[2] < size(u)) =>
          size(u') = size(u) - (last'.args[2] - last'.args[1] + 1)]_vars

\* C7: resize(newSize, v) and resize(newSize) with
\* size() <= newSize <= MAX_VECTOR_CAPACITY / sizeof(T) end with
\* size() == newSize and capacity() >= newSize, keep the old elements, fill
\* the new slots with v (with default-constructed elements), by exactly
\* newSize - size() copy (default) constructions and nothing else; with
\* newSize == size() nothing is constructed or destroyed
C7_ResizeGrow ==
    [][(/\ last'.op \in {"resize", "resize_object"}
        /\ size(a) <= last'.args[1]
        /\ last'.args[1] <= MAX_VECTOR_CAPACITY \div sizeofT) =>
          LET newSize == last'.args[1]
              m == size(a)
              withObject == last'.op = "resize_object"
              fill == IF withObject THEN last'.args[2] ELSE DefaultValue
              made == IF withObject THEN "cctor" ELSE "ctor"
              other == IF withObject THEN "ctor" ELSE "cctor"
          IN  /\ Returned'
              /\ size(a') = newSize
              /\ capacity(a') >= newSize
              /\ \A i \in 0 .. m - 1 : a'.mem[i] = a.mem[i]
              /\ \A i \in m .. newSize - 1 : a'.mem[i] = fill
              /\ Count(last'.log, made) = newSize - m
              /\ Count(last'.log, other) = 0
              /\ Count(last'.log, "dtor") = 0
              /\ Count(last'.log, "assign") = 0
              /\ newSize = m => last'.log = <<>>]_vars

\* a resize with a fill value added elements behind existing ones and had to
\* grow the committed memory for them
C7_Witness ==
    /\ last.op = "resize_object" /\ Returned
    /\ Count(last.log, "grow") = 1
    /\ Count(last.log, "cctor") >= 2
    /\ Count(last.log, "cctor") < size(a)
    /\ last.args[2] # DefaultValue

\* C8: resize(newSize) with newSize < size() (either overload) destroys
\* exactly the elements newSize .. size()-1, in ascending order, keeps the
\* elements before them, sets size() to newSize and keeps capacity()
C8_ResizeShrink ==
    [][(/\ last'.op \in {"resize", "resize_object"}
        /\ last'.args[1] < size(a)) =>
          LET newSize == last'.args[1]
              m == size(a)
          IN  /\ Returned'
              /\ last'.log = [i \in 1 .. m - newSize |->
                                <<"dtor", newSize + i - 1>>]
              /\ \A i \in 0 .. newSize - 1 : a'.mem[i] = a.mem[i]
              /\ size(a') = newSize
              /\ capacity(a') = capacity(a)
              /\ a'.m_physical_mem_end = a.m_physical_mem_end]_vars

\* a resize destroyed at least two elements and kept at least one, and the
\* capacity stayed above what is left
C8_Witness ==
    /\ last.op \in {"resize", "resize_object"} /\ Returned
    /\ Count(last.log, "dtor") >= 2
    /\ size(a) >= 1
    /\ capacity(a) >= size(a) + 2

\* C9: reserve(c) with c <= MAX_VECTOR_CAPACITY / sizeof(T) ends with
\* capacity() >= c and leaves size() and all elements as they were; if
\* capacity() >= c held before, capacity() and the committed range are
\* unchanged
C9_Reserve ==
    [][(/\ last'.op = "reserve"
        /\ last'.args[1] <= MAX_VECTOR_CAPACITY \div sizeofT) =>
          LET c == last'.args[1]
          IN  /\ Returned'
              /\ capacity(a') >= c
              /\ size(a') = size(a)
              /\ a'.mem = a.mem
              /\ capacity(a) >= c =>
                    /\ capacity(a') = capacity(a)
                    /\ a'.m_physical_mem_end = a.m_physical_mem_end
                    /\ a'.m_physical_mem_begin = a.m_physical_mem_begin]_vars

\* a reserve grew the committed memory of a vector that holds elements
C9_Witness ==
    /\ last.op = "reserve" /\ Returned
    /\ Count(last.log, "grow") = 1
    /\ size(a) >= 1
    /\ capacity(a) >= last.args[1]

\* C10: reserve(n), 0 < n <= MAX_VECTOR_CAPACITY / sizeof(T), on a freshly
\* constructed vector commits n * sizeof(T) bytes rounded up to the page
\* size, so capacity() is that many bytes divided by sizeof(T), and the
\* vector is still empty (in both implementations)
C10_ReserveRoundsToPage ==
    [][(/\ a = Vector /\ u = Vector_cv
        /\ last'.op = "reserve"
        /\ 0 < last'.args[1]
        /\ last'.args[1] <= MAX_VECTOR_CAPACITY \div sizeofT) =>
          LET n == last'.args[1]
              bytes == RoundedUp(n * sizeofT, PageSize)
          IN  /\ Returned'
              /\ a'.m_physical_mem_end - a'.m_physical_mem_begin = bytes
              /\ capacity(a') = bytes \div sizeofT
              /\ size(a') = 0
              /\ u'.m_committed_memory_end - u'.m_committed_memory_begin
                    = bytes
              /\ capacity(u') = bytes \div sizeofT
              /\ size(u') = 0]_vars

\* a reserve on an empty vector whose byte count is no multiple of the page
\* size left more capacity than was asked for
C10_Witness ==
    /\ last.op = "reserve" /\ Returned
    /\ last.args[1] > 0
    /\ (last.args[1] * sizeofT) % PageSize # 0
    /\ size(a) = 0 /\ size(u) = 0
    /\ a.m_physical_mem_end - a.m_physical_mem_begin
          = RoundedUp(last.args[1] * sizeofT, PageSize)
    /\ capacity(a) > last.args[1]
    /\ capacity(u) = capacity(a)

\* C11: reserve of CustomVector.cpp is idempotent: a reserve(x) made when
\* capacity() >= x already holds (a repeated reserve(x), x == capacity(),
\* reserve(0) on a fresh vector) leaves capacity() unchanged
C11_ReserveIdempotent ==
    [][(last'.op = "reserve" /\ capacity(u) >= last'.args[1])
          => capacity(u') = capacity(u)]_vars

\* the capacity and the committed end of the object after a step are not
\* below those before it
NotLowered(before, after) ==
    (before # NoVector /\ after # NoVector) =>
        /\ capacity(after) >= capacity(before)
        /\ after.m_physical_mem_end >= before.m_physical_mem_end

\* C12: capacity() never decreases: no push_back, reserve, resize, erase,
\* erase(range), erase_by_swap or assignment lowers the capacity of an
\* object or moves its committed end backwards
C12_CapacityMonotone ==
    [][NotLowered(a, a') /\ NotLowered(b, b')]_vars

\* an assignment from an object of smaller capacity returned
C12_Witness ==
    /\ last.op = "operator="
    /\ last.on = "a"
    /\ last.args = <<"b">>
    /\ Returned
    /\ capacity(a) > capacity(b)
    /\ size(b) > 0

\* C13: a copy-constructed vector has the size() of its source, the
\* capacity() of its source, and element i equal to element i of the source
\* for every i < size(), for every source and every element size; the source
\* is left as it was
C13_CopyConstruction ==
    [][last'.op = "Vector(copy)" =>
          /\ Returned'
          /\ size(b') = size(a)
          /\ capacity(b') = capacity(a)
          /\ Elements(b') = Elements(a)
          /\ a' = a]_vars

\* a copy was made of a vector that holds two elements and has room for more
C13_Witness ==
    /\ last.op = "Vector(copy)"
    /\ Returned
    /\ size(b) = 2
    /\ capacity(b) > size(b)
    /\ b.mem[0] # b.mem[1]

\* the size, the capacity and the elements of an object are those it had
Untouched(before, after) ==
    IF before = NoVector \/ after = NoVector THEN after = before
    ELSE /\ size(after) = size(before)
         /\ capacity(after) = capacity(before)
         /\ Elements(after) = Elements(before)

C15_AssignGrows ==
    [][(/\ last'.op = "operator="
        /\ last'.on = "a"
        /\ last'.args = <<"b">>
        /\ capacity(b) > capacity(a))
          => /\ Returned'
             /\ capacity(a') = capacity(b)
             /\ size(a') = size(b)
             /\ Elements(a') = Elements(b)]_vars

\* the destructions of the log, in their order
Destroyed(log) == SelectSeq(log, LAMBDA e : e[1] = "dtor")

\* the assignment target = source, which took target to after and made the
\* log, kept the capacity of target, destroyed the elements target had and
\* copied the elements of source
AssignedInPlace(target, after, source, log) ==
    /\ capacity(after) = capacity(target)
    /\ after.m_physical_mem_end = target.m_physical_mem_end
    /\ Destroyed(log) = [i \in 1 .. size(target) |-> <<"dtor", i - 1>>]
    /\ Count(log, "grow") = 0
    /\ size(after) = size(source)
    /\ Elements(after) = Elements(source)

\* C16: an assignment from a different vector whose capacity is not larger
\* never shrinks: the capacity of the target is unchanged, exactly the
\* elements the target held are destroyed, and afterwards the target has
\* the size and the elements of the source
C16_AssignKeepsCapacity ==
    [][/\ (/\ last'.op = "operator="
           /\ last'.on = "a"
           /\ last'.args = <<"b">>
           /\ capacity(b) <= capacity(a))
             => (Returned' /\ AssignedInPlace(a, a', b, last'.log))
       /\ (/\ last'.op = "operator="
           /\ last'.on = "b"
           /\ last'.args = <<"a">>
           /\ capacity(a) <= capacity(b))
             => (Returned' /\ AssignedInPlace(b, b', a, last'.log))]_vars

\* a vector of two elements was assigned a vector of smaller capacity that
\* holds one element
C16_Witness ==
    /\ last.op = "operator="
    /\ last.on = "a"
    /\ last.args = <<"b">>
    /\ Returned
    /\ capacity(b) < capacity(a)
    /\ size(b) = 1
    /\ Count(last.log, "dtor") = 2
    /\ Count(last.log, "cctor") = 1

\* C17: destroying a vector of k elements destroys exactly the elements
\* 0 .. k-1, in ascending order and each once, and only then releases the
\* reserved range, once
C17_DestructorCalls ==
    [][last'.op = "~Vector" =>
          LET v == Object(last'.on)
          IN  /\ Returned'
              /\ last'.log =
                    [i \in 1 .. size(v) |-> <<"dtor", i - 1>>]
                       \o <<<<"release", v.m_virtual_mem_begin>>>>]_vars

\* a vector of three elements was destroyed
C17_Witness ==
    /\ last.op = "~Vector"
    /\ Returned
    /\ Count(last.log, "dtor") = 3
    /\ Count(last.log, "release") = 1

\* the slots of the object that hold a constructed element
Live(v) == {i \in DOMAIN v.mem : v.mem[i] # Raw}

\* every element operation of log, made in its order on an object whose
\* live slots are live and whose committed bytes are committed, has a proper
\* target: a construction a raw slot inside the committed memory, a
\* destruction a live slot, an assignment two live slots
RECURSIVE WellTargeted(_, _, _)
WellTargeted(live, committed, log) ==
    IF log = <<>> THEN TRUE
    ELSE LET e == Head(log)
         IN  CASE e[1] \in {"ctor", "cctor"} ->
                    /\ e[2] \notin live
                    /\ e[2] < committed \div sizeofT
                    /\ WellTargeted(live \cup {e[2]}, committed, Tail(log))
               [] e[1] = "dtor" ->
                    /\ e[2] \in live
                    /\ WellTargeted(live \ {e[2]}, committed, Tail(log))
               [] e[1] = "assign" ->
                    /\ e[2] \in live
                    /\ e[3] \in live
                    /\ WellTargeted(live, committed, Tail(log))
               [] e[1] = "grow" ->
                    WellTargeted(live, committed + e[3], Tail(log))
               [] OTHER -> WellTargeted(live, committed, Tail(log))

\* C18: the live slots are exactly the indices below size(): after every
\* call they are 0 .. size()-1, every construction of the call targeted a
\* raw slot below the capacity, every destruction and every assignment a
\* live slot, and no slot was constructed or destroyed twice in a row
C18_LiveSlots ==
    [][/\ (fault' = None) => Live(a') = 0 .. size(a') - 1
       /\ WellTargeted(Live(a), a.m_physical_mem_end - a.m_physical_mem_begin,
                       last'.log)]_vars

\* C19: the address fields stay ordered: reservedBegin <= committedBegin <=
\* committedEnd <= reservedEnd, the committed range begins where the
\* reserved range begins, the reserved range is MAX_VECTOR_CAPACITY bytes
\* long and is the range reserved at construction
C19_AddressOrder ==
    /\ a.m_virtual_mem_begin <= a.m_physical_mem_begin
    /\ a.m_physical_mem_begin <= a.m_physical_mem_end
    /\ a.m_physical_mem_end <= a.m_virtual_mem_end
    /\ a.m_physical_mem_begin = a.m_virtual_mem_begin
    /\ a.m_virtual_mem_end - a.m_virtual_mem_begin = MAX_VECTOR_CAPACITY
    /\ a.m_virtual_mem_begin = ReserveAddressSpace

\* a push_back asked for more bytes than the reserved range had left and
\* the committed end stopped at the reserved end
C19_Witness ==
    /\ last.op = "push_back"
    /\ Returned
    /\ \E i \in 1 .. Len(last.log) :
          /\ last.log[i][1] = "grow"
          /\ last.log[i][3] < last.log[i][2]
    /\ a.m_physical_mem_end = a.m_virtual_mem_end

C21_RangeFailure ==
    [][(/\ last'.op \in {"resize", "resize_object", "reserve"}
        /\ last'.args[1] > MAX_VECTOR_CAPACITY \div sizeofT)
          => /\ fault' = IF last'.op = "reserve"
                         THEN "assert: reserve exceeds max capacity"
                         ELSE "assert: resize exceeds max capacity"
             /\ last'.log = <<>>
             /\ a' = a]_vars

\* a reserve of one element too many failed on a vector that holds elements
\* and has memory left to commit
C21_Witness ==
    /\ last.op = "reserve"
    /\ last.args[1] = MAX_VECTOR_CAPACITY \div sizeofT + 1
    /\ fault = "assert: reserve exceeds max capacity"
    /\ size(a) > 0
    /\ a.m_physical_mem_end < a.m_virtual_mem_end

\* C22: erase(index), erase_by_swap(index) and operator[](index) with
\* index >= size() fail with the out-of-range assert for every length of
\* the vector, 0 included; the index is not clamped and the failing call
\* assigns, destroys and changes nothing
C22_IndexOutOfRange ==
    [][(/\ last'.op \in {"erase", "erase_by_swap", "subscript_write"}
        /\ last'.args[1] >= size(a))
          => /\ fault' = IF last'.op = "subscript_write"
                         THEN "assert: subscript out of range"
                         ELSE "assert: index out of range"
             /\ last'.log = <<>>
             /\ a' = a]_vars

\* an erase just behind the last of two elements failed
C22_Witness ==
    /\ last.op = "erase"
    /\ last.args[1] = size(a)
    /\ size(a) = 2
    /\ fault = "assert: index out of range"

\* C23: erase(rangeBegin, rangeEnd) fails with an out-of-range assert
\* whenever rangeEnd < rangeBegin or rangeEnd >= size(), for every length of
\* the vector, the empty vector included, and the failing call leaves the
\* object unchanged
C23_RangeOutOfRange ==
    [][(/\ last'.op = "erase_range"
        /\ (last'.args[2] < last'.args[1] \/ last'.args[2] >= size(a)))
          => /\ fault' \in {"assert: end index before start index",
                            "assert: end index out of range"}
             /\ last'.log = <<>>
             /\ a' = a]_vars

\* C24: when the platform refuses a commit inside the growth of push_back,
\* reserve or resize, the call fails with an AllocationError: no element is
\* constructed afterwards, and the committed end and the capacity are what
\* they were
C24_AllocationError ==
    [][(/\ last'.op \in {"push_back", "reserve", "resize"}
        /\ Len(last'.args) = 2
        /\ last'.args[2] = FALSE)
          => /\ fault' = "AllocationError"
             /\ Count(last'.log, "ctor") + Count(last'.log, "cctor") = 0
             /\ a'.m_physical_mem_end = a.m_physical_mem_end
             /\ capacity(a') = capacity(a)]_vars

\* C25: on a vector of n elements the degenerate range erase(i, i) with
\* i < n does nothing: size, capacity and every element are unchanged and
\* nothing is destroyed or assigned
C25_EraseEmptyRange ==
    [][(/\ last'.op = "erase_range"
        /\ last'.args[1] = last'.args[2]
        /\ last'.args[1] < size(a))
          => /\ Returned'
             /\ last'.log = <<>>
             /\ a' = a]_vars

\* erase(1, 1) returned on a vector of three elements
C25_Witness ==
    /\ last.op = "erase_range"
    /\ last.args = <<1, 1>>
    /\ Returned
    /\ size(a) = 3


\* C26: a push_back on a full vector (size() == capacity()) whose committed
\* memory has not reached the end of the reserved range asks the growth
\* routine for max(capacity(), 8) elements worth of bytes, before the
\* rounding to pages
C26_GrowRequest ==
    [][(/\ last'.op = "push_back"
        /\ size(a) = capacity(a)
        /\ a.m_physical_mem_end # a.m_virtual_mem_end)
          => /\ Len(last'.log) >= 1
             /\ last'.log[1][1] = "grow"
             /\ last'.log[1][2] =
                  (IF capacity(a) > 8 THEN capacity(a) ELSE 8) * sizeofT]_vars


\* C27: erase(index) with index < n on a vector of n elements performs
\* exactly n - index - 1 assignments, element i + 1 onto element i for
\* i = index, ..., n - 2 in ascending order, then exactly one destruction,
\* of element n - 1, and constructs nothing
C27_EraseEvents ==
    [][(last'.op = "erase" /\ last'.args[1] < size(a))
          => last'.log =
               [i \in 1 .. size(a) - last'.args[1] - 1 |->
                    <<"assign", last'.args[1] + i - 1, last'.args[1] + i>>]
               \o <<<<"dtor", size(a) - 1>>>>]_vars

\* erase(0) returned on a vector of three elements: two assignments and
\* one destruction
C27_Witness ==
    /\ last.op = "erase"
    /\ last.args = <<0>>
    /\ Returned
    /\ size(a) = 2
    /\ Len(last.log) = 3


\* C28: assigning a vector to itself does nothing: the call returns, no
\* element is destroyed or constructed, and size, capacity and every element
\* of the vector (and of the other vector) are as before
C28_SelfAssignment ==
    [][(last'.op = "operator=" /\ last'.args = <<last'.on>>)
          => /\ Returned'
             /\ last'.log = <<>>
             /\ a' = a
             /\ b' = b]_vars

\* a = a returned on a vector of two elements
C28_Witness ==
    /\ last.op = "operator="
    /\ last.on = "a"
    /\ last.args = <<"a">>
    /\ Returned
    /\ size(a) = 2
    /\ Elements(a)[1] # Elements(a)[2]

====
